---------------------------- MODULE Spec2Model ----------------------------
(***************************************************************************)
(* Model of backend/server.py: the telemedicine scheduling backend.        *)
(*                                                                         *)
(* The document store `db` holds four collections, each kept as a sequence *)
(* in insertion order (the store's natural order, which find_one and       *)
(* update_one follow).  Every route handler is an operator from the store, *)
(* the clock and the request to a result [status, body, db]; the action of *)
(* a handler installs the resulting store.  Fields the handlers never read *)
(* (created_at, UserSession.id, license_number, bio, scheduled_time) are   *)
(* left out of the documents.                                              *)
(*                                                                         *)
(* Spec runs the handlers one request at a time.  SpecConcurrent runs the  *)
(* handlers that make more than one store call as coroutines: `tasks`      *)
(* holds the requests in flight, each at the await it is suspended on, and *)
(* a step is one store call of one of them.                                *)
(***************************************************************************)
EXTENDS Naturals, Sequences, FiniteSets

VARIABLES db, now, steps, last, tasks

vars == <<db, now, steps, last, tasks>>

----------------------------------------------------------------------------
(* Bounds of the model *)

\* a behaviour makes at most this many steps that change the store or the
\* clock; requests that only read, or that fail, are not counted
MaxSteps == 4

----------------------------------------------------------------------------
(* Values *)

\* a missing cookie, header or body field (Python None)
Absent == "<absent>"

\* uuid.uuid4(): a fresh identifier; identifiers of different collections
\* never coincide, so an identifier carries the collection it was drawn for
NewId(kind, coll) == <<kind, Len(coll) + 1>>

\* an identifier no document has
UnknownId == <<"unknown", 0>>

\* timedelta(days=7): the clock counts days
SESSION_DAYS == 7

\* `not x` for a string or None
Falsy(x) == x \in {Absent, ""}

\* find_one: the index of the first document passing Test, 0 when none does
FindOne(coll, Test(_)) ==
    IF \E i \in 1..Len(coll) : Test(coll[i])
    THEN CHOOSE i \in 1..Len(coll) :
            Test(coll[i]) /\ \A j \in 1..(i - 1) : ~Test(coll[j])
    ELSE 0

\* find(...).to_list(None): the documents passing Test, in store order
FindAll(coll, Test(_)) == SelectSeq(coll, Test)

\* delete_many: the collection without the documents passing Test
DeleteMany(coll, Test(_)) ==
    LET Keep(x) == ~Test(x) IN SelectSeq(coll, Keep)

\* update_one with $set of one field: only the first match is written
UpdateOne(coll, Test(_), Set(_)) ==
    LET i == FindOne(coll, Test)
    IN  IF i = 0 THEN coll ELSE [coll EXCEPT ![i] = Set(coll[i])]

\* the result of a handler: the HTTP status, the JSON body, the store after it
Result(status, body, d) == [status |-> status, body |-> body, db |-> d]

\* raise HTTPException(status_code, detail): no write has been made
HTTPException(status, detail, d) == Result(status, detail, d)

----------------------------------------------------------------------------
(* The session tokens and the Identity Verifier *)

Tokens == {"tok_a1", "tok_a2", "tok_b1", "tok_forged"}

\* the session ids a client may present to POST /auth/session
SessionIds == {"sid_a1", "sid_a2", "sid_b1", "sid_bad", "sid_down", "", Absent}

\* GET .../oauth/session-data with X-Session-ID: the verifier answers a known
\* session id with the identity and the session token it stands for (the same
\* answer each time it is asked), an unknown one with a non-200 status, and
\* the call raises when the verifier cannot be reached
Verifier(session_id) ==
    CASE session_id = "sid_a1" ->
            [status |-> 200, email |-> "alice@example.com", name |-> "Alice",
             picture |-> "alice.png", session_token |-> "tok_a1"]
      [] session_id = "sid_a2" ->
            [status |-> 200, email |-> "alice@example.com", name |-> "Alice",
             picture |-> "alice.png", session_token |-> "tok_a2"]
      [] session_id = "sid_b1" ->
            [status |-> 200, email |-> "bob@example.com", name |-> "Bob",
             picture |-> "bob.png", session_token |-> "tok_b1"]
      [] session_id = "sid_down" ->
            [status |-> 0, email |-> "", name |-> "", picture |-> "",
             session_token |-> ""]
      [] OTHER ->
            [status |-> 404, email |-> "", name |-> "", picture |-> "",
             session_token |-> ""]

\* the httpx call raised instead of answering
VerifierRaised(auth_response) == auth_response.status = 0

----------------------------------------------------------------------------
(* Request Gate *)

\* the credentials of a request: the session_token cookie and the
\* Authorization header, the header split at its spaces (<<>> when absent)
Cookies == {Absent, ""} \cup Tokens

Headers ==
    {<<>>, <<"Bearer", "">>, <<"Bearer", "tok_a1">>, <<"Bearer", "tok_b1">>,
     <<"Basic", "tok_a1">>}

Credentials == [cookie : Cookies, header : Headers]

\* the Bearer header asked first, the cookie only when there is none
SessionToken_HeaderFirst(request) ==
    IF Len(request.header) >= 2 /\ request.header[1] = "Bearer"
    THEN request.header[2]
    ELSE IF ~Falsy(request.cookie) THEN request.cookie
         ELSE Absent

\* get_current_user, lines 83-87: the cookie first, then the Bearer header
SessionToken(request) ==
    IF ~Falsy(request.cookie) THEN request.cookie
    ELSE IF Len(request.header) >= 2 /\ request.header[1] = "Bearer"
         THEN request.header[2]
         ELSE Absent

\* get_current_user returning None
NoUser == [id |-> UnknownId, email |-> "", name |-> "", picture |-> "",
           role |-> ""]

\* the expiry compared with >= instead of >
ActiveSession_NotStrict(d, t, session_token) ==
    LET Match(s) == s.session_token = session_token /\ s.expires_at >= t
    IN  FindOne(d.user_sessions, Match)

\* lines 93-96: the first session with the token whose expiry is after now
ActiveSession(d, t, session_token) ==
    LET Match(s) == s.session_token = session_token /\ s.expires_at > t
    IN  FindOne(d.user_sessions, Match)

get_current_user(d, t, request) ==
    LET session_token == SessionToken(request)
    IN  IF Falsy(session_token) THEN NoUser
        ELSE LET s == ActiveSession(d, t, session_token)
             IN  IF s = 0 THEN NoUser
                 ELSE LET ById(u) == u.id = d.user_sessions[s].user_id
                          i == FindOne(d.users, ById)
                      IN  IF i = 0 THEN NoUser ELSE d.users[i]

\* the gate passing whoever presents a token, resolved or not
require_auth_TokenOnly(d, t, request) ==
    IF Falsy(SessionToken(request)) THEN 401 ELSE 0

\* require_auth: the status it raises, 0 when it returns the user
require_auth(d, t, request) ==
    IF get_current_user(d, t, request) = NoUser THEN 401 ELSE 0

\* the doctor gate without its role check
require_doctor_NoRole(d, t, request) == require_auth(d, t, request)

\* require_doctor: the status it raises, 0 when it returns the user
require_doctor(d, t, request) ==
    IF require_auth(d, t, request) # 0 THEN require_auth(d, t, request)
    ELSE IF get_current_user(d, t, request).role # "doctor" THEN 403
    ELSE 0

----------------------------------------------------------------------------
(* Authentication routes *)

\* the session given a lifetime of one day
UserSession_OneDay(user_id, session_token, t) ==
    [user_id |-> user_id, session_token |-> session_token, expires_at |-> t + 1]

\* lines 158 and 164-168: the session issued at time t
UserSession(user_id, session_token, t) ==
    [user_id |-> user_id, session_token |-> session_token,
     expires_at |-> t + SESSION_DAYS]

\* the new session inserted without the delete_many before it
ReplaceSessions_NoDelete(sessions, session) == Append(sessions, session)

\* lines 160-169: the user's sessions are deleted, then the new one inserted
ReplaceSessions(sessions, session) ==
    LET OfUser(s) == s.user_id = session.user_id
    IN  Append(DeleteMany(sessions, OfUser), session)

\* the try block with the user upserted: an existing user is stored again
\* with the default role
ProcessSessionBody_ResetRole(d, t, session_id) ==
    IF Falsy(session_id)
    THEN [raised |-> TRUE, res |-> HTTPException(400, "Session ID required", d)]
    ELSE
    LET user_data == Verifier(session_id) IN
    IF VerifierRaised(user_data)
    THEN [raised |-> TRUE, res |-> Result(0, "ConnectError", d)]
    ELSE IF user_data.status # 200
    THEN [raised |-> TRUE, res |-> HTTPException(401, "Invalid session", d)]
    ELSE
    LET ByEmail(u) == u.email = user_data.email
        existing == FindOne(d.users, ByEmail)
        user == IF existing = 0
                THEN [id |-> NewId("user", d.users), email |-> user_data.email,
                      name |-> user_data.name, picture |-> user_data.picture,
                      role |-> "patient"]
                ELSE [d.users[existing] EXCEPT !.role = "patient"]
        users1 == IF existing = 0 THEN Append(d.users, user)
                  ELSE [d.users EXCEPT ![existing] = user]
        session == [user_id |-> user.id,
                    session_token |-> user_data.session_token,
                    expires_at |-> t + SESSION_DAYS]
        sessions1 == ReplaceSessions(d.user_sessions, session)
        d1 == [d EXCEPT !.users = users1, !.user_sessions = sessions1]
    IN  [raised |-> FALSE,
         res |-> Result(200, [user |-> user, success |-> TRUE,
                              set_cookie |-> user_data.session_token], d1)]

\* the body of process_session's try block; an exception it raises is the
\* result with `raised` set (status: the HTTPException's, 0 for another one)
ProcessSessionBody(d, t, session_id) ==
    IF Falsy(session_id)
    THEN [raised |-> TRUE, res |-> HTTPException(400, "Session ID required", d)]
    ELSE
    LET user_data == Verifier(session_id) IN
    IF VerifierRaised(user_data)
    THEN [raised |-> TRUE, res |-> Result(0, "ConnectError", d)]
    ELSE IF user_data.status # 200
    THEN [raised |-> TRUE, res |-> HTTPException(401, "Invalid session", d)]
    ELSE
    LET ByEmail(u) == u.email = user_data.email
        existing == FindOne(d.users, ByEmail)
        user == IF existing = 0
                THEN [id |-> NewId("user", d.users), email |-> user_data.email,
                      name |-> user_data.name, picture |-> user_data.picture,
                      role |-> "patient"]
                ELSE d.users[existing]
        users1 == IF existing = 0 THEN Append(d.users, user) ELSE d.users
        session == UserSession(user.id, user_data.session_token, t)
        sessions1 == ReplaceSessions(d.user_sessions, session)
        d1 == [d EXCEPT !.users = users1, !.user_sessions = sessions1]
    IN  [raised |-> FALSE,
         res |-> Result(200, [user |-> user, success |-> TRUE,
                              set_cookie |-> user_data.session_token], d1)]

\* the except branch clearing the session store before it answers 500
process_session_ClearOnError(d, t, session_id) ==
    LET r == ProcessSessionBody(d, t, session_id)
    IN  IF r.raised
        THEN HTTPException(500, "Session processing failed",
                           [r.res.db EXCEPT !.user_sessions = <<>>])
        ELSE r.res

\* POST /auth/session: `except Exception` catches whatever the body raised,
\* the HTTPExceptions included, and raises 500 in its place
process_session(d, t, session_id) ==
    LET r == ProcessSessionBody(d, t, session_id)
    IN  IF r.raised
        THEN HTTPException(500, "Session processing failed", r.res.db)
        ELSE r.res

\* the session's expiry pushed forward each time the user is asked for
get_current_user_info_Renew(d, t, request) ==
    IF require_auth(d, t, request) # 0
    THEN HTTPException(401, "Authentication required", d)
    ELSE
    LET ByToken(s) == s.session_token = SessionToken(request)
        Renew(s) == [s EXCEPT !.expires_at = t + SESSION_DAYS]
    IN  Result(200, [user |-> get_current_user(d, t, request)],
               [d EXCEPT !.user_sessions =
                           UpdateOne(d.user_sessions, ByToken, Renew)])

\* GET /auth/me
get_current_user_info(d, t, request) ==
    IF require_auth(d, t, request) # 0
    THEN HTTPException(401, "Authentication required", d)
    ELSE Result(200, [user |-> get_current_user(d, t, request)], d)

\* logout taking the token the way the gate does, cookie or Bearer header
logout_AnyCredential(d, t, request) ==
    LET WithToken(s) == s.session_token = SessionToken(request)
    IN  IF ~Falsy(SessionToken(request))
        THEN Result(200, [success |-> TRUE],
                    [d EXCEPT !.user_sessions =
                                DeleteMany(d.user_sessions, WithToken)])
        ELSE Result(200, [success |-> TRUE], d)

\* POST /auth/logout: only the cookie is read
logout(d, t, request) ==
    LET WithToken(s) == s.session_token = request.cookie
    IN  IF ~Falsy(request.cookie)
        THEN Result(200, [success |-> TRUE],
                    [d EXCEPT !.user_sessions =
                                DeleteMany(d.user_sessions, WithToken)])
        ELSE Result(200, [success |-> TRUE], d)

----------------------------------------------------------------------------
(* Doctor routes *)

\* DoctorProfileCreate: a body that lacks a required field fails validation;
\* the framework resolves Depends(require_auth) first and answers 422 after it
ValidProfile(profile_data) == profile_data.specialization # Absent

\* the profile fields a client may submit to POST /doctors/profile
ProfileInputs ==
    {[specialization |-> "Dermatology", experience_years |-> 4,
      consultation_fee |-> 60],
     [specialization |-> "Neurology", experience_years |-> 15,
      consultation_fee |-> 150],
     [specialization |-> Absent, experience_years |-> 1,
      consultation_fee |-> 10]}

\* the role set with a filter that matches every user
SetDoctorRole_AllUsers(d, user_id) ==
    [d EXCEPT !.users = [i \in 1..Len(d.users) |->
                            [d.users[i] EXCEPT !.role = "doctor"]]]

\* lines 211-214: the store once the caller's role has been set to doctor
\* (the store other requests see until the profile is inserted at line 221)
SetDoctorRole(d, user_id) ==
    LET ById(u) == u.id = user_id
        SetRole(u) == [u EXCEPT !.role = "doctor"]
    IN  [d EXCEPT !.users = UpdateOne(d.users, ById, SetRole)]

\* the profile stored while the user's role is left as it was
create_doctor_profile_KeepRole(d, t, request, profile_data) ==
    IF require_auth(d, t, request) # 0
    THEN HTTPException(401, "Authentication required", d)
    ELSE IF ~ValidProfile(profile_data)
    THEN HTTPException(422, "validation error", d)
    ELSE
    LET user == get_current_user(d, t, request)
        profile == [id |-> NewId("profile", d.doctor_profiles),
                    user_id |-> user.id,
                    specialization |-> profile_data.specialization,
                    experience_years |-> profile_data.experience_years,
                    consultation_fee |-> profile_data.consultation_fee,
                    available |-> TRUE]
        d1 == [d EXCEPT !.doctor_profiles = Append(d.doctor_profiles, profile)]
    IN  Result(200, [profile |-> profile, success |-> TRUE], d1)

\* POST /doctors/profile
create_doctor_profile(d, t, request, profile_data) ==
    IF require_auth(d, t, request) # 0
    THEN HTTPException(401, "Authentication required", d)
    ELSE IF ~ValidProfile(profile_data)
    THEN HTTPException(422, "validation error", d)
    ELSE
    LET user == get_current_user(d, t, request)
        profile == [id |-> NewId("profile", d.doctor_profiles),
                    user_id |-> user.id,
                    specialization |-> profile_data.specialization,
                    experience_years |-> profile_data.experience_years,
                    consultation_fee |-> profile_data.consultation_fee,
                    available |-> TRUE]
        d1 == [SetDoctorRole(d, user.id) EXCEPT
                  !.doctor_profiles = Append(d.doctor_profiles, profile)]
    IN  Result(200, [profile |-> profile, success |-> TRUE], d1)

\* the user field GET /doctors adds to a profile (<<>> when the user is gone)
DoctorUser(d, doctor) ==
    LET ById(u) == u.id = doctor.user_id
        i == FindOne(d.users, ById)
    IN  IF i = 0 THEN <<>>
        ELSE <<[name |-> d.users[i].name, picture |-> d.users[i].picture]>>

\* every profile listed, the available flag not asked for
get_available_doctors_AllProfiles(d) ==
    LET doctors == d.doctor_profiles
    IN  Result(200,
               [i \in 1..Len(doctors) |->
                   [profile |-> doctors[i], user |-> DoctorUser(d, doctors[i])]],
               d)

\* GET /doctors: the body's doctors, each [profile, user]
get_available_doctors(d) ==
    LET Available(p) == p.available = TRUE
        doctors == FindAll(d.doctor_profiles, Available)
    IN  Result(200,
               [i \in 1..Len(doctors) |->
                   [profile |-> doctors[i], user |-> DoctorUser(d, doctors[i])]],
               d)

\* the first profile stored returned, whoever it belongs to
get_doctor_profile_AnyProfile(d, t, request) ==
    IF require_doctor(d, t, request) # 0
    THEN HTTPException(require_doctor(d, t, request), "gate", d)
    ELSE IF Len(d.doctor_profiles) = 0
    THEN HTTPException(404, "Doctor profile not found", d)
    ELSE Result(200, [profile |-> d.doctor_profiles[1]], d)

\* GET /doctors/profile
get_doctor_profile(d, t, request) ==
    IF require_doctor(d, t, request) # 0
    THEN HTTPException(require_doctor(d, t, request), "gate", d)
    ELSE
    LET user == get_current_user(d, t, request)
        OfUser(p) == p.user_id = user.id
        i == FindOne(d.doctor_profiles, OfUser)
    IN  IF i = 0 THEN HTTPException(404, "Doctor profile not found", d)
        ELSE Result(200, [profile |-> d.doctor_profiles[i]], d)

\* PUT /doctors/availability
update_availability(d, t, request, available) ==
    IF require_doctor(d, t, request) # 0
    THEN HTTPException(require_doctor(d, t, request), "gate", d)
    ELSE
    LET user == get_current_user(d, t, request)
        OfUser(p) == p.user_id = user.id
        SetAvailable(p) == [p EXCEPT !.available = available]
    IN  Result(200, [success |-> TRUE],
               [d EXCEPT !.doctor_profiles =
                           UpdateOne(d.doctor_profiles, OfUser, SetAvailable)])

----------------------------------------------------------------------------
(* Appointment routes *)

\* the appointment types a client submits (the field is not validated)
AppointmentTypes == {"scheduled"}

\* Optional[...] = None, and an identifier missing from a body
None == <<"None", 0>>

\* AppointmentCreate: doctor_id is required
ValidAppointment(doctor_id) == doctor_id # None

\* the doctor looked up by id alone, the available flag not asked for
FindAvailableDoctor_AnyProfile(d, doctor_id) ==
    LET Doctor(p) == p.id = doctor_id
    IN  FindOne(d.doctor_profiles, Doctor)

\* lines 269-272: the first profile with the id that is available, 0 if none
FindAvailableDoctor(d, doctor_id) ==
    LET AvailableDoctor(p) == p.id = doctor_id /\ p.available = TRUE
    IN  FindOne(d.doctor_profiles, AvailableDoctor)

\* the Appointment built without video_room_id, which then is its default
NewAppointment_NoRoom(d, user, doctor_id, type) ==
    [id |-> NewId("appointment", d.appointments),
     patient_id |-> user.id,
     doctor_id |-> doctor_id,
     status |-> "pending",
     type |-> type,
     video_room_id |-> None]

\* the Appointment given the room of its doctor: one room id per profile
NewAppointment_DoctorRoom(d, user, doctor_id, type) ==
    [id |-> NewId("appointment", d.appointments),
     patient_id |-> user.id,
     doctor_id |-> doctor_id,
     status |-> "pending",
     type |-> type,
     video_room_id |-> <<"room", doctor_id[2]>>]

\* lines 277-283: the Appointment document; status is the model's default
NewAppointment(d, user, doctor_id, type) ==
    [id |-> NewId("appointment", d.appointments),
     patient_id |-> user.id,
     doctor_id |-> doctor_id,
     status |-> "pending",
     type |-> type,
     video_room_id |-> NewId("room", d.appointments)]

\* the appointment inserted without the doctor being looked up
create_appointment_NoDoctorCheck(d, t, request, doctor_id, type) ==
    IF require_auth(d, t, request) # 0
    THEN HTTPException(401, "Authentication required", d)
    ELSE IF ~ValidAppointment(doctor_id)
    THEN HTTPException(422, "validation error", d)
    ELSE
    LET user == get_current_user(d, t, request)
        appointment == NewAppointment(d, user, doctor_id, type)
    IN  Result(200, [appointment |-> appointment, success |-> TRUE],
               [d EXCEPT !.appointments = Append(d.appointments, appointment)])

\* POST /appointments
create_appointment(d, t, request, doctor_id, type) ==
    IF require_auth(d, t, request) # 0
    THEN HTTPException(401, "Authentication required", d)
    ELSE IF ~ValidAppointment(doctor_id)
    THEN HTTPException(422, "validation error", d)
    ELSE
    LET user == get_current_user(d, t, request)
        doctor == FindAvailableDoctor(d, doctor_id)
        appointment == NewAppointment(d, user, doctor_id, type)
    IN  IF doctor = 0 THEN HTTPException(404, "Doctor not available", d)
        ELSE Result(200, [appointment |-> appointment, success |-> TRUE],
                    [d EXCEPT !.appointments = Append(d.appointments, appointment)])

\* the patient field GET /appointments adds for a doctor (<<>> when omitted)
PatientInfo(d, appointment) ==
    LET ById(u) == u.id = appointment.patient_id
        i == FindOne(d.users, ById)
    IN  IF i = 0 THEN <<>>
        ELSE <<[name |-> d.users[i].name, picture |-> d.users[i].picture]>>

\* the doctor's profile looked up by user_id instead of by id
DoctorInfo_ByUserId(d, appointment) ==
    LET ByUserId(p) == p.user_id = appointment.doctor_id
        i == FindOne(d.doctor_profiles, ByUserId)
    IN  IF i = 0 THEN <<>>
        ELSE <<[name |-> "", picture |-> "",
                specialization |-> d.doctor_profiles[i].specialization]>>

\* the doctor field GET /appointments adds for a patient (<<>> when omitted)
DoctorInfo(d, appointment) ==
    LET ByProfileId(p) == p.id = appointment.doctor_id
        i == FindOne(d.doctor_profiles, ByProfileId)
    IN  IF i = 0 THEN <<>>
        ELSE LET ById(u) == u.id = d.doctor_profiles[i].user_id
                 j == FindOne(d.users, ById)
             IN  IF j = 0 THEN <<>>
                 ELSE <<[name |-> d.users[j].name,
                         picture |-> d.users[j].picture,
                         specialization |-> d.doctor_profiles[i].specialization]>>

\* GET /appointments: the body's appointments, each [appointment, patient,
\* doctor]; a doctor's are those whose doctor_id is the caller's user id
get_user_appointments(d, t, request) ==
    IF require_auth(d, t, request) # 0
    THEN HTTPException(401, "Authentication required", d)
    ELSE
    LET user == get_current_user(d, t, request)
        ForDoctor(a) == a.doctor_id = user.id
        ForPatient(a) == a.patient_id = user.id
        appointments == IF user.role = "doctor"
                        THEN FindAll(d.appointments, ForDoctor)
                        ELSE FindAll(d.appointments, ForPatient)
    IN  Result(200,
               [i \in 1..Len(appointments) |->
                   [appointment |-> appointments[i],
                    patient |-> IF user.role = "doctor"
                                THEN PatientInfo(d, appointments[i]) ELSE <<>>,
                    doctor |-> IF user.role = "doctor"
                               THEN <<>> ELSE DoctorInfo(d, appointments[i])]],
               d)

\* the appointment handed to whoever asks, the caller's part in it not checked
join_appointment_NoAccessCheck(d, t, request, appointment_id) ==
    IF require_auth(d, t, request) # 0
    THEN HTTPException(401, "Authentication required", d)
    ELSE
    LET ById(a) == a.id = appointment_id
        i == FindOne(d.appointments, ById)
    IN  IF i = 0 THEN HTTPException(404, "Appointment not found", d)
        ELSE Result(200, [appointment |-> d.appointments[i]], d)

\* GET /appointments/{appointment_id}/join
join_appointment(d, t, request, appointment_id) ==
    IF require_auth(d, t, request) # 0
    THEN HTTPException(401, "Authentication required", d)
    ELSE
    LET user == get_current_user(d, t, request)
        ById(a) == a.id = appointment_id
        i == FindOne(d.appointments, ById)
    IN  IF i = 0 THEN HTTPException(404, "Appointment not found", d)
        ELSE IF d.appointments[i].patient_id # user.id
                /\ d.appointments[i].doctor_id # user.id
        THEN HTTPException(403, "Access denied", d)
        ELSE Result(200, [appointment |-> d.appointments[i]], d)

\* the call started for its patient alone, anyone else refused
start_appointment_PatientOnly(d, t, request, appointment_id) ==
    IF require_auth(d, t, request) # 0
    THEN HTTPException(401, "Authentication required", d)
    ELSE
    LET user == get_current_user(d, t, request)
        ById(a) == a.id = appointment_id
        SetActive(a) == [a EXCEPT !.status = "active"]
        i == FindOne(d.appointments, ById)
    IN  IF i = 0 THEN HTTPException(404, "Appointment not found", d)
        ELSE IF d.appointments[i].patient_id # user.id
        THEN HTTPException(403, "Access denied", d)
        ELSE Result(200, [video_room_id |-> d.appointments[i].video_room_id,
                          success |-> TRUE],
                    [d EXCEPT !.appointments =
                                UpdateOne(d.appointments, ById, SetActive)])

\* the call switched: started when pending, put back to pending when active
start_appointment_Toggle(d, t, request, appointment_id) ==
    IF require_auth(d, t, request) # 0
    THEN HTTPException(401, "Authentication required", d)
    ELSE
    LET ById(a) == a.id = appointment_id
        Switch(a) == [a EXCEPT !.status = IF @ = "pending" THEN "active"
                                          ELSE "pending"]
        i == FindOne(d.appointments, ById)
    IN  IF i = 0 THEN HTTPException(404, "Appointment not found", d)
        ELSE Result(200, [video_room_id |-> d.appointments[i].video_room_id,
                          success |-> TRUE],
                    [d EXCEPT !.appointments =
                                UpdateOne(d.appointments, ById, Switch)])

\* POST /appointments/{appointment_id}/start
start_appointment(d, t, request, appointment_id) ==
    IF require_auth(d, t, request) # 0
    THEN HTTPException(401, "Authentication required", d)
    ELSE
    LET ById(a) == a.id = appointment_id
        SetActive(a) == [a EXCEPT !.status = "active"]
        i == FindOne(d.appointments, ById)
    IN  IF i = 0 THEN HTTPException(404, "Appointment not found", d)
        ELSE Result(200, [video_room_id |-> d.appointments[i].video_room_id,
                          success |-> TRUE],
                    [d EXCEPT !.appointments =
                                UpdateOne(d.appointments, ById, SetActive)])

----------------------------------------------------------------------------
(* Sample doctors *)

sample_doctors ==
    <<[email |-> "dr.smith@medconnect.com", name |-> "Dr. Sarah Smith",
       picture |-> "photo-1559839734", specialization |-> "General Medicine",
       experience_years |-> 8, consultation_fee |-> 75],
      [email |-> "dr.johnson@medconnect.com", name |-> "Dr. Michael Johnson",
       picture |-> "photo-1612349317150", specialization |-> "Cardiology",
       experience_years |-> 12, consultation_fee |-> 120],
      [email |-> "dr.wilson@medconnect.com", name |-> "Dr. Emily Wilson",
       picture |-> "photo-1594824804732", specialization |-> "Pediatrics",
       experience_years |-> 6, consultation_fee |-> 90]>>

\* one round of the loop that inserts without asking whether the email exists
SeedOne_NoEmailCheck(d, doctor_data) ==
    LET user == [id |-> NewId("user", d.users), email |-> doctor_data.email,
                 name |-> doctor_data.name, picture |-> doctor_data.picture,
                 role |-> "doctor"]
        profile == [id |-> NewId("profile", d.doctor_profiles),
                    user_id |-> user.id,
                    specialization |-> doctor_data.specialization,
                    experience_years |-> doctor_data.experience_years,
                    consultation_fee |-> doctor_data.consultation_fee,
                    available |-> TRUE]
    IN  [d EXCEPT !.users = Append(d.users, user),
                  !.doctor_profiles = Append(d.doctor_profiles, profile)]

\* one round of the loop with the user's role left to its default, patient
SeedOne_DefaultRole(d, doctor_data) ==
    LET ByEmail(u) == u.email = doctor_data.email
        user == [id |-> NewId("user", d.users), email |-> doctor_data.email,
                 name |-> doctor_data.name, picture |-> doctor_data.picture,
                 role |-> "patient"]
        profile == [id |-> NewId("profile", d.doctor_profiles),
                    user_id |-> user.id,
                    specialization |-> doctor_data.specialization,
                    experience_years |-> doctor_data.experience_years,
                    consultation_fee |-> doctor_data.consultation_fee,
                    available |-> TRUE]
    IN  IF FindOne(d.users, ByEmail) # 0 THEN d
        ELSE [d EXCEPT !.users = Append(d.users, user),
                       !.doctor_profiles = Append(d.doctor_profiles, profile)]

\* one round of init_sample_doctors' loop, lines 389-411
SeedOne(d, doctor_data) ==
    LET ByEmail(u) == u.email = doctor_data.email
        user == [id |-> NewId("user", d.users), email |-> doctor_data.email,
                 name |-> doctor_data.name, picture |-> doctor_data.picture,
                 role |-> "doctor"]
        profile == [id |-> NewId("profile", d.doctor_profiles),
                    user_id |-> user.id,
                    specialization |-> doctor_data.specialization,
                    experience_years |-> doctor_data.experience_years,
                    consultation_fee |-> doctor_data.consultation_fee,
                    available |-> TRUE]
    IN  IF FindOne(d.users, ByEmail) # 0 THEN d
        ELSE [d EXCEPT !.users = Append(d.users, user),
                       !.doctor_profiles = Append(d.doctor_profiles, profile)]

RECURSIVE SeedFrom(_, _)
SeedFrom(d, k) ==
    IF k > Len(sample_doctors) THEN d
    ELSE SeedFrom(SeedOne(d, sample_doctors[k]), k + 1)

\* POST /admin/init-sample-doctors
init_sample_doctors(d) ==
    Result(200, [message |-> "Sample doctors initialized", success |-> TRUE],
           SeedFrom(d, 1))

----------------------------------------------------------------------------
(* The state machine *)

\* the credentials the clients of the model send: nothing, a token in the
\* cookie, or bob's token in the Bearer header (a handler's writes depend on
\* the credentials only through the user they resolve to)
ClientCredentials ==
    {c \in Credentials :
        \/ c.header = <<>> /\ c.cookie # ""
        \/ c.cookie = Absent /\ c.header = <<"Bearer", "tok_b1">>}

\* the ids a client asks for: those of the stored documents and an unknown one
KnownIds(coll) == {coll[i].id : i \in 1..Len(coll)} \cup {UnknownId}

\* the doctor_id of a booking: a stored profile's, an unknown one, or missing
DoctorIdInputs(d) == KnownIds(d.doctor_profiles) \cup {None}

Init ==
    /\ db = [users |-> <<>>, user_sessions |-> <<>>,
             doctor_profiles |-> <<>>, appointments |-> <<>>]
    /\ now = 0
    /\ steps = 0
    /\ last = "none"
    /\ tasks = <<>>

\* a handler has answered: its store is installed; `last` names the last
\* step that changed the store or the clock
Answer(op, r) ==
    /\ db' = r.db
    /\ IF r.db = db
       THEN UNCHANGED <<steps, last>>
       ELSE steps < MaxSteps /\ steps' = steps + 1 /\ last' = op
    /\ UNCHANGED <<now, tasks>>

ProcessSession ==
    \E session_id \in SessionIds :
        Answer("process_session", process_session(db, now, session_id))

GetCurrentUserInfo ==
    \E request \in ClientCredentials :
        Answer("get_current_user_info", get_current_user_info(db, now, request))

Logout ==
    \E request \in ClientCredentials : Answer("logout", logout(db, now, request))

\* the bodies the clients of the model submit: one valid, one invalid
ClientProfiles == {p \in ProfileInputs : p.specialization # "Neurology"}

CreateDoctorProfile ==
    \E request \in ClientCredentials, profile_data \in ClientProfiles :
        Answer("create_doctor_profile",
               create_doctor_profile(db, now, request, profile_data))

GetAvailableDoctors ==
    Answer("get_available_doctors", get_available_doctors(db))

GetDoctorProfile ==
    \E request \in ClientCredentials :
        Answer("get_doctor_profile", get_doctor_profile(db, now, request))

UpdateAvailability ==
    \E request \in ClientCredentials, available \in BOOLEAN :
        Answer("update_availability",
               update_availability(db, now, request, available))

CreateAppointment ==
    \E request \in ClientCredentials, doctor_id \in DoctorIdInputs(db),
       type \in AppointmentTypes :
        Answer("create_appointment",
               create_appointment(db, now, request, doctor_id, type))

GetUserAppointments ==
    \E request \in ClientCredentials :
        Answer("get_user_appointments", get_user_appointments(db, now, request))

JoinAppointment ==
    \E request \in ClientCredentials, appointment_id \in KnownIds(db.appointments) :
        Answer("join_appointment",
               join_appointment(db, now, request, appointment_id))

StartAppointment ==
    \E request \in ClientCredentials, appointment_id \in KnownIds(db.appointments) :
        Answer("start_appointment",
               start_appointment(db, now, request, appointment_id))

InitSampleDoctors ==
    Answer("init_sample_doctors", init_sample_doctors(db))

\* the days the clock advances by in one step: one day, or a day less than
\* a session lifetime (the two together make a whole lifetime)
TickDays == {1, SESSION_DAYS - 1}

\* the clock is read only against the expiry of stored sessions, so it
\* stands still while there is none
Tick ==
    \E days \in TickDays :
        /\ steps < MaxSteps
        /\ db.user_sessions # <<>>
        /\ now' = now + days
        /\ steps' = steps + 1
        /\ last' = "tick"
        /\ UNCHANGED <<db, tasks>>

Next ==
    \/ ProcessSession
    \/ GetCurrentUserInfo
    \/ Logout
    \/ CreateDoctorProfile
    \/ GetAvailableDoctors
    \/ GetDoctorProfile
    \/ UpdateAvailability
    \/ CreateAppointment
    \/ GetUserAppointments
    \/ JoinAppointment
    \/ StartAppointment
    \/ InitSampleDoctors
    \/ Tick

Spec == Init /\ [][Next]_vars

----------------------------------------------------------------------------
(* The requests the properties range over *)

\* the ids of all stored documents, and one no document has
AllIds(d) ==
    KnownIds(d.users) \cup KnownIds(d.doctor_profiles)
        \cup KnownIds(d.appointments)

\* P holds of the answer of each of the eight auth-gated endpoints to one
\* set of credentials, over every body and over the ids of the stored
\* profiles and appointments, an unknown id and a missing one
ForAllGated(d, t, request, P(_)) ==
    /\ P(get_current_user_info(d, t, request))
    /\ P(get_doctor_profile(d, t, request))
    /\ P(get_user_appointments(d, t, request))
    /\ \A p \in ProfileInputs : P(create_doctor_profile(d, t, request, p))
    /\ \A a \in BOOLEAN : P(update_availability(d, t, request, a))
    /\ \A id \in DoctorIdInputs(d), ty \in AppointmentTypes :
          P(create_appointment(d, t, request, id, ty))
    /\ \A id \in KnownIds(d.appointments) :
          /\ P(join_appointment(d, t, request, id))
          /\ P(start_appointment(d, t, request, id))

\* the credentials that present token tok, in the cookie or in the header
Presenting(tok) == {c \in Credentials : SessionToken(c) = tok}

\* the credentials that resolve to a user
Authenticated(d, t) ==
    {c \in Credentials : get_current_user(d, t, c) # NoUser}

\* the tokens of the stored sessions
SessionTokens(d) ==
    {d.user_sessions[i].session_token : i \in 1..Len(d.user_sessions)}

\* the session ids the verifier accepts
LoginIds == {sid \in SessionIds : ~Falsy(sid) /\ Verifier(sid).status = 200}

----------------------------------------------------------------------------
(* C1 *)

\* C1: a request to an auth-gated endpoint whose credentials resolve to no
\* user (none presented, an unknown token, an expired session) is answered
\* 401 and leaves the store as it was, whatever its body or id
C1_Unauthenticated401 ==
    \A request \in Credentials :
        get_current_user(db, now, request) = NoUser
            => LET Refused(r) == r.status = 401 /\ r.db = db
               IN  ForAllGated(db, now, request, Refused)

\* an appointment is stored, and joining it with a forged token is refused
C1_Witness ==
    /\ last = "create_appointment"
    /\ \E i \in 1..Len(db.appointments) :
          join_appointment(db, now, [cookie |-> "tok_forged", header |-> <<>>],
                           db.appointments[i].id).status = 401

----------------------------------------------------------------------------
(* C2 *)

\* C2: on the doctor-only endpoints a valid session of a patient is answered
\* 403 and no DoctorProfile changes; a valid session of a doctor is answered
\* neither 401 nor 403
C2_DoctorOnly ==
    \A request \in Authenticated(db, now) :
        LET user == get_current_user(db, now, request)
            Denied(r) == r.status = 403 /\ r.db.doctor_profiles = db.doctor_profiles
            Passed(r) == r.status \notin {401, 403}
        IN  /\ user.role = "patient"
                => /\ Denied(get_doctor_profile(db, now, request))
                   /\ \A a \in BOOLEAN :
                         Denied(update_availability(db, now, request, a))
            /\ user.role = "doctor"
                => /\ Passed(get_doctor_profile(db, now, request))
                   /\ \A a \in BOOLEAN :
                         Passed(update_availability(db, now, request, a))

\* a doctor and a patient are both logged in while profiles exist: the
\* patient is refused with 403, the doctor is not
C2_Witness ==
    /\ Len(db.doctor_profiles) > 0
    /\ \E c1, c2 \in Authenticated(db, now) :
          /\ get_current_user(db, now, c1).role = "patient"
          /\ update_availability(db, now, c1, FALSE).status = 403
          /\ get_current_user(db, now, c2).role = "doctor"
          /\ get_doctor_profile(db, now, c2).status = 200

----------------------------------------------------------------------------
(* C3 *)

\* the days that may pass between two requests
Elapsed == {0} \cup TickDays

\* after logins sid1 then sid2 (at time t2) from the current store, the user
\* has exactly one session row, and it bears the second login's token
C3_OneSession(sid1, sid2, t2) ==
    LET r1 == process_session(db, now, sid1)
        r2 == process_session(r1.db, t2, sid2)
        OfUser(s) == s.user_id = r2.body.user.id
        rows == FindAll(r2.db.user_sessions, OfUser)
    IN  /\ r1.status = 200 /\ r2.status = 200
        /\ r1.body.user.id = r2.body.user.id
        /\ Len(rows) = 1
        /\ rows[1].session_token = Verifier(sid2).session_token

\* after the two logins the first login's token authenticates no request
C3_FirstTokenRefused(sid1, sid2, t2) ==
    LET r1 == process_session(db, now, sid1)
        r2 == process_session(r1.db, t2, sid2)
        tok1 == Verifier(sid1).session_token
    IN  /\ tok1 \notin SessionTokens(r2.db)
        /\ \A request \in Presenting(tok1), dt \in Elapsed :
              /\ get_current_user(r2.db, t2 + dt, request) = NoUser
              /\ get_current_user_info(r2.db, t2 + dt, request).status = 401

\* the pairs of logins for the same external identity
SameIdentity ==
    {p \in LoginIds \X LoginIds : Verifier(p[1]).email = Verifier(p[2]).email}

\* C3 as claimed: after two logins for the same identity one session row is
\* left, it bears the second token, and the first token no longer authenticates
C3_AsClaimed ==
    \A p \in SameIdentity, dt \in Elapsed :
        /\ C3_OneSession(p[1], p[2], now + dt)
        /\ C3_FirstTokenRefused(p[1], p[2], now + dt)

\* C3: after two logins for the same identity exactly one session row is left
\* for the user and it bears the second login's token; the first login's
\* token no longer authenticates, unless the verifier returned the same token
\* to the second login (the verifier's token is adopted as it is)
C3_SessionReplaced ==
    \A p \in SameIdentity, dt \in Elapsed :
        /\ C3_OneSession(p[1], p[2], now + dt)
        /\ Verifier(p[1]).session_token # Verifier(p[2]).session_token
            => C3_FirstTokenRefused(p[1], p[2], now + dt)

\* two logins of one user, one right after the other, are all that happened
C3_Witness ==
    /\ steps = 2 /\ last = "process_session" /\ now = 0
    /\ Len(db.users) = 1 /\ Len(db.doctor_profiles) = 0
    /\ Len(db.user_sessions) = 1

----------------------------------------------------------------------------
(* C4 *)

\* a stored session has the token, expires after t, and its user exists
LiveSession(d, t, tok) ==
    \E i \in 1..Len(d.user_sessions) :
        /\ d.user_sessions[i].session_token = tok
        /\ d.user_sessions[i].expires_at > t
        /\ \E j \in 1..Len(d.users) : d.users[j].id = d.user_sessions[i].user_id

\* C4: a presented token resolves to a user exactly when a session row has
\* it with expires_at strictly after now and the row's user exists; a token
\* not so is absent, and answered 401, be it expired or unknown
C4_ResolvesIffLive ==
    \A tok \in Tokens : \A request \in Presenting(tok) :
        /\ (get_current_user(db, now, request) # NoUser)
                <=> LiveSession(db, now, tok)
        /\ ~LiveSession(db, now, tok)
            => /\ get_current_user(db, now, request)
                    = get_current_user(db, now,
                                       [cookie |-> "tok_forged", header |-> <<>>])
               /\ get_current_user_info(db, now, request).status = 401

\* a session expires this very day, and its token is refused
C4_Witness ==
    /\ last = "tick"
    /\ \E i \in 1..Len(db.user_sessions) :
          /\ db.user_sessions[i].expires_at = now
          /\ get_current_user_info(db, now,
                [cookie |-> db.user_sessions[i].session_token,
                 header |-> <<>>]).status = 401

----------------------------------------------------------------------------
(* C5 *)

\* the session rows whose token is not tok, in store order
OtherSessions(d, tok) ==
    LET Other(s) == s.session_token # tok IN SelectSeq(d.user_sessions, Other)

\* the store after the session rows with token tok are deleted
WithoutToken(d, tok) == [d EXCEPT !.user_sessions = OtherSessions(d, tok)]

\* C5: logout always reports success; with token t in the cookie no row with
\* t is left, t authenticates nothing afterwards (cookie or header), the rows
\* with other tokens stay as they were; with no cookie, or no matching row,
\* the sessions are unchanged; and in no state does a request other than a
\* login add a session token, so t stays refused until a login issues it again
C5_Logout ==
    /\ \A request \in Credentials :
          LET r == logout(db, now, request)
              tok == request.cookie
          IN  /\ r.status = 200
              /\ r.db = IF Falsy(tok) THEN db ELSE WithoutToken(db, tok)
              /\ tok \notin SessionTokens(r.db)
              /\ tok \notin SessionTokens(db) => r.db = db
    /\ \A tok \in Tokens :
          \A c \in Presenting(tok), dt \in Elapsed :
             /\ get_current_user(WithoutToken(db, tok), now + dt, c) = NoUser
             /\ get_current_user_info(WithoutToken(db, tok), now + dt, c).status
                   = 401
    /\ LET NoNewToken(o) == SessionTokens(o.db) \subseteq SessionTokens(db)
       IN  /\ \A request \in Credentials :
                 /\ ForAllGated(db, now, request, NoNewToken)
                 /\ NoNewToken(logout(db, now, request))
           /\ NoNewToken(get_available_doctors(db))
           /\ NoNewToken(init_sample_doctors(db))

\* a logout has deleted one user's session while another user's remains
C5_Witness ==
    /\ last = "logout"
    /\ Len(db.users) = 2
    /\ Len(db.user_sessions) = 1

----------------------------------------------------------------------------
(* C6, C7 *)

\* C6: POST /auth/session without a session_id, or with an empty one, is
\* answered 400
C6_MissingSessionId400 ==
    \A session_id \in SessionIds :
        Falsy(session_id) => process_session(db, now, session_id).status = 400

\* C7: POST /auth/session with a session id the verifier answers with a
\* non-success status is answered 401
C7_RejectedSessionId401 ==
    \A session_id \in SessionIds :
        (/\ ~Falsy(session_id)
         /\ ~VerifierRaised(Verifier(session_id))
         /\ Verifier(session_id).status # 200)
            => process_session(db, now, session_id).status = 401

----------------------------------------------------------------------------
(* C8 *)

\* some stored profile has the id and is available
Bookable(d, doctor_id) ==
    \E i \in 1..Len(d.doctor_profiles) :
        d.doctor_profiles[i].id = doctor_id /\ d.doctor_profiles[i].available

\* C8: an authenticated booking whose doctor_id matches no profile, or only
\* an unavailable one, is answered 404 and the store stays as it was
C8_Unbookable404 ==
    \A request \in Authenticated(db, now), doctor_id \in AllIds(db),
       type \in AppointmentTypes :
        ~Bookable(db, doctor_id)
            => LET r == create_appointment(db, now, request, doctor_id, type)
               IN  r.status = 404 /\ r.db = db

\* a doctor has switched a profile off, and a booking against it gets 404
C8_Witness ==
    /\ last = "update_availability"
    /\ \E request \in Authenticated(db, now), i \in 1..Len(db.doctor_profiles) :
          /\ ~db.doctor_profiles[i].available
          /\ create_appointment(db, now, request, db.doctor_profiles[i].id,
                                "scheduled").status = 404

----------------------------------------------------------------------------
(* C9 *)

\* the video_room_ids of the stored appointments
RoomIds(d) == {d.appointments[i].video_room_id : i \in 1..Len(d.appointments)}

\* C9: an authenticated booking against an available profile succeeds and
\* inserts exactly one appointment: pending, the caller its patient, the
\* requested profile its doctor, its room id set and held by no earlier one
C9_Booked ==
    \A request \in Authenticated(db, now), doctor_id \in AllIds(db),
       type \in AppointmentTypes :
        Bookable(db, doctor_id)
            => LET r == create_appointment(db, now, request, doctor_id, type)
                   a == r.db.appointments[Len(r.db.appointments)]
               IN  /\ r.status = 200
                   /\ r.db = [db EXCEPT !.appointments = Append(db.appointments, a)]
                   /\ a.status = "pending"
                   /\ a.patient_id = get_current_user(db, now, request).id
                   /\ a.doctor_id = doctor_id
                   /\ a.video_room_id # None
                   /\ a.video_room_id \notin RoomIds(db)
                   /\ r.body.appointment = a

\* a second appointment has just been booked
C9_Witness ==
    /\ last = "create_appointment"
    /\ Len(db.appointments) = 2
    /\ db.appointments[2].status = "pending"
    /\ db.appointments[2].video_room_id # db.appointments[1].video_room_id

----------------------------------------------------------------------------
(* C10 *)

\* GET /appointments by `request` lists appointment a with its doctor field:
\* the name and picture of the profile's user, the profile's specialization
ListedWithDoctor(d, t, request, a) ==
    LET r == get_user_appointments(d, t, request)
    IN  /\ r.status = 200
        /\ \E k \in 1..Len(r.body) :
              /\ r.body[k].appointment = a
              /\ Len(r.body[k].doctor) = 1
              /\ \E i \in 1..Len(d.doctor_profiles), j \in 1..Len(d.users) :
                    /\ d.doctor_profiles[i].id = a.doctor_id
                    /\ d.users[j].id = d.doctor_profiles[i].user_id
                    /\ r.body[k].doctor[1] =
                          [name |-> d.users[j].name,
                           picture |-> d.users[j].picture,
                           specialization |-> d.doctor_profiles[i].specialization]

\* C10 as claimed: whatever has happened since the booking, GET /appointments
\* by the patient of a stored appointment lists it with its doctor field
C10_AsClaimed ==
    \A i \in 1..Len(db.appointments), request \in Authenticated(db, now) :
        get_current_user(db, now, request).id = db.appointments[i].patient_id
            => ListedWithDoctor(db, now, request, db.appointments[i])

\* C10: GET /appointments by the patient of a stored appointment lists it
\* with its doctor field for as long as that user's role is patient (once
\* the user has created a doctor profile the listing is the doctor's)
C10_PatientSeesBooking ==
    \A i \in 1..Len(db.appointments), request \in Authenticated(db, now) :
        LET user == get_current_user(db, now, request)
        IN  (user.id = db.appointments[i].patient_id /\ user.role = "patient")
                => ListedWithDoctor(db, now, request, db.appointments[i])

\* a patient's booking has been started by someone since, and the patient,
\* still logged in, finds it in the list
C10_Witness ==
    /\ last = "start_appointment"
    /\ \E i \in 1..Len(db.appointments), request \in Authenticated(db, now) :
          /\ get_current_user(db, now, request).id = db.appointments[i].patient_id
          /\ get_current_user(db, now, request).role = "patient"
          /\ ListedWithDoctor(db, now, request, db.appointments[i])

----------------------------------------------------------------------------
(* C11 *)

\* the ids of the users who own the profile appointment a is booked with
DoctorsOf(d, a) ==
    {d.doctor_profiles[i].user_id :
        i \in {k \in 1..Len(d.doctor_profiles) :
                  d.doctor_profiles[k].id = a.doctor_id}}

\* the ids of the stored appointments
AppointmentIds(d) == {d.appointments[i].id : i \in 1..Len(d.appointments)}

\* C11: joining a stored appointment as a logged-in user who is neither its
\* patient nor the owner of its doctor's profile is answered 403, joining
\* an id no appointment has is answered 404, and neither changes the store
C11_JoinRefused ==
    \A request \in Authenticated(db, now) :
        LET user == get_current_user(db, now, request)
        IN  /\ \A i \in 1..Len(db.appointments) :
                  LET a == db.appointments[i]
                      r == join_appointment(db, now, request, a.id)
                  IN  (a.patient_id # user.id /\ user.id \notin DoctorsOf(db, a))
                          => r.status = 403 /\ r.db = db
            /\ \A id \in KnownIds(db.appointments) \ AppointmentIds(db) :
                  LET r == join_appointment(db, now, request, id)
                  IN  r.status = 404 /\ r.db = db

\* a third user is logged in beside an appointment of another patient with
\* another doctor: joining it is refused, and so is joining an unknown id
C11_Witness ==
    \E request \in Authenticated(db, now), i \in 1..Len(db.appointments) :
        LET user == get_current_user(db, now, request)
            a == db.appointments[i]
        IN  /\ a.patient_id # user.id
            /\ DoctorsOf(db, a) # {}
            /\ user.id \notin DoctorsOf(db, a)
            /\ join_appointment(db, now, request, a.id).status = 403
            /\ join_appointment(db, now, request, UnknownId).status = 404

----------------------------------------------------------------------------
(* C12 *)

\* C12 as claimed: joining a stored appointment returns the whole record,
\* both to its patient and to the user who owns the DoctorProfile its
\* doctor_id references
C12_PatientAndDoctorJoin ==
    \A request \in Authenticated(db, now), i \in 1..Len(db.appointments) :
        LET user == get_current_user(db, now, request)
            a == db.appointments[i]
            r == join_appointment(db, now, request, a.id)
        IN  (a.patient_id = user.id \/ user.id \in DoctorsOf(db, a))
                => r.status = 200 /\ r.body.appointment = a

----------------------------------------------------------------------------
(* C13 *)

\* the stored appointments booked with a profile of the user with id user_id
AppointmentsOfDoctor(d, user_id) ==
    {d.appointments[i] :
        i \in {k \in 1..Len(d.appointments) :
                  user_id \in DoctorsOf(d, d.appointments[k])}}

\* C13 as claimed: GET /appointments by a doctor lists exactly the stored
\* appointments whose doctor_id is the id of a profile of the caller, each
\* with its patient's name and picture
C13_DoctorSeesOwn ==
    \A request \in Authenticated(db, now) :
        LET user == get_current_user(db, now, request)
            r == get_user_appointments(db, now, request)
        IN  user.role = "doctor"
                => /\ r.status = 200
                   /\ {r.body[k].appointment : k \in 1..Len(r.body)}
                          = AppointmentsOfDoctor(db, user.id)
                   /\ \A k \in 1..Len(r.body) :
                          r.body[k].patient = PatientInfo(db, r.body[k].appointment)
                          /\ Len(r.body[k].patient) = 1

----------------------------------------------------------------------------
(* C14 *)

\* store d with the status of its i-th appointment active, all else as it was
Started(d, i) == [d EXCEPT !.appointments[i].status = "active"]

\* C14: starting a stored appointment as any logged-in user, its patient or
\* not, is answered with the room id it has borne since its creation and
\* changes its status to active and nothing else in the store; starting it
\* once more answers the same room id and changes nothing; starting an id
\* no appointment has is answered 404 and changes nothing; and an
\* appointment just booked is started with the room id its creation answered
C14_Start ==
    \A request \in Authenticated(db, now) :
        /\ \A i \in 1..Len(db.appointments) :
              LET a == db.appointments[i]
                  r == start_appointment(db, now, request, a.id)
                  again == start_appointment(r.db, now, request, a.id)
              IN  /\ r.status = 200
                  /\ r.body.video_room_id = a.video_room_id
                  /\ r.db = Started(db, i)
                  /\ again.status = 200
                  /\ again.body.video_room_id = a.video_room_id
                  /\ again.db = r.db
        /\ \A id \in KnownIds(db.appointments) \ AppointmentIds(db) :
              LET r == start_appointment(db, now, request, id)
              IN  r.status = 404 /\ r.db = db
        /\ \A doctor_id \in DoctorIdInputs(db), type \in AppointmentTypes :
              LET c == create_appointment(db, now, request, doctor_id, type)
              IN  c.status = 200
                      => \A other \in Authenticated(db, now) :
                            LET s == start_appointment(c.db, now, other,
                                                       c.body.appointment.id)
                            IN  /\ s.status = 200
                                /\ s.body.video_room_id
                                      = c.body.appointment.video_room_id

\* a pending appointment has just been booked, and a logged-in user who is
\* neither its patient nor its doctor starts it: it becomes active
C14_Witness ==
    /\ last = "create_appointment"
    /\ \E request \in Authenticated(db, now), i \in 1..Len(db.appointments) :
          LET user == get_current_user(db, now, request)
              a == db.appointments[i]
              r == start_appointment(db, now, request, a.id)
          IN  /\ a.patient_id # user.id
              /\ user.id \notin DoctorsOf(db, a)
              /\ a.status = "pending"
              /\ r.status = 200
              /\ r.db.appointments[i].status = "active"
              /\ start_appointment(db, now, request, UnknownId).status = 404

----------------------------------------------------------------------------
(* C15 *)

\* the emails of the sample doctors
SampleEmails == {sample_doctors[k].email : k \in 1..Len(sample_doctors)}

\* the users of store d that have one of the sample doctors' emails
SampleUsers(d) ==
    {d.users[i] : i \in {k \in 1..Len(d.users) : d.users[k].email \in SampleEmails}}

\* the profiles of store d that belong to one of the users in us
ProfilesOf(d, us) ==
    {d.doctor_profiles[i] :
        i \in {k \in 1..Len(d.doctor_profiles) :
                  \E u \in us : u.id = d.doctor_profiles[k].user_id}}

\* C15: seeding a store without users and profiles leaves exactly 3 users,
\* all doctors with distinct sample emails, and 3 profiles, one of each, all
\* available; seeding any store a second and a third time right after the
\* first inserts nothing; and so does seeding once the three are stored
C15_SeedIdempotent ==
    LET once == init_sample_doctors(db)
        twice == init_sample_doctors(once.db)
        thrice == init_sample_doctors(twice.db)
        seeded == SampleUsers(once.db)
    IN  /\ once.status = 200 /\ twice.status = 200
        /\ twice.db = once.db
        /\ thrice.db = once.db
        /\ Cardinality(seeded) = 3
        /\ {u.email : u \in seeded} = SampleEmails
        /\ \A u \in seeded : u.role = "doctor"
        /\ Cardinality(ProfilesOf(once.db, seeded)) = 3
        /\ \A u \in seeded : Cardinality(ProfilesOf(once.db, {u})) = 1
        /\ (db.users = <<>> /\ db.doctor_profiles = <<>>)
              => /\ Len(once.db.users) = 3
                 /\ Len(once.db.doctor_profiles) = 3
                 /\ \A i \in 1..3 : once.db.doctor_profiles[i].available = TRUE
                 /\ once.db.user_sessions = db.user_sessions
                 /\ once.db.appointments = db.appointments
        /\ Cardinality(SampleUsers(db)) = 3 => once.db = db

\* the store has just been seeded from empty: 3 doctors and 3 available
\* profiles are stored, and seeding again would insert nothing
C15_Witness ==
    /\ last = "init_sample_doctors"
    /\ Len(db.users) = 3 /\ Len(db.doctor_profiles) = 3
    /\ \A i \in 1..3 : db.users[i].role = "doctor" /\ db.doctor_profiles[i].available
    /\ init_sample_doctors(db).db = db

----------------------------------------------------------------------------
(* C16 *)

\* the places in the profile collection of the profiles that are available
AvailableAt(d) ==
    {i \in 1..Len(d.doctor_profiles) : d.doctor_profiles[i].available = TRUE}

\* C16: in every reachable state GET /doctors lists each available profile
\* once and no other profile, and every entry has the user field, holding
\* the name and the picture of the user the profile belongs to
C16_AvailableDoctors ==
    LET r == get_available_doctors(db)
    IN  /\ r.status = 200 /\ r.db = db
        /\ Len(r.body) = Cardinality(AvailableAt(db))
        /\ {r.body[k].profile : k \in 1..Len(r.body)}
              = {db.doctor_profiles[i] : i \in AvailableAt(db)}
        /\ \A k \in 1..Len(r.body) :
              /\ Len(r.body[k].user) = 1
              /\ \E j \in 1..Len(db.users) :
                    /\ db.users[j].id = r.body[k].profile.user_id
                    /\ r.body[k].user[1] = [name |-> db.users[j].name,
                                            picture |-> db.users[j].picture]

\* a doctor has just switched availability off while other profiles are
\* available: the list holds those and not the doctor's
C16_Witness ==
    /\ last = "update_availability"
    /\ AvailableAt(db) # {}
    /\ AvailableAt(db) # 1..Len(db.doctor_profiles)
    /\ Len(get_available_doctors(db).body) = Cardinality(AvailableAt(db))

----------------------------------------------------------------------------
(* C17 *)

\* GET /doctors on store d lists a profile of the user with id user_id that
\* has the three fields of profile_data
ListsProfile(d, user_id, profile_data) ==
    LET r == get_available_doctors(d)
    IN  /\ r.status = 200
        /\ \E k \in 1..Len(r.body) :
              /\ r.body[k].profile.user_id = user_id
              /\ r.body[k].profile.specialization = profile_data.specialization
              /\ r.body[k].profile.consultation_fee = profile_data.consultation_fee
              /\ r.body[k].profile.experience_years = profile_data.experience_years

\* C17: when POST /doctors/profile succeeds, GET /doctors on the resulting
\* store lists a profile of the caller with the specialization, fee and
\* experience submitted, and GET /auth/me with the same credentials reports
\* the caller, now with role doctor
C17_ProfileRoundTrip ==
    \A request \in Authenticated(db, now), profile_data \in ProfileInputs :
        LET user == get_current_user(db, now, request)
            r == create_doctor_profile(db, now, request, profile_data)
            me == get_current_user_info(r.db, now, request)
        IN  /\ ValidProfile(profile_data) => r.status = 200
            /\ r.status = 200
                  => /\ ListsProfile(r.db, user.id, profile_data)
                     /\ me.status = 200
                     /\ me.body.user.id = user.id
                     /\ me.body.user.role = "doctor"

\* a user who was a patient has just created a profile: it is listed with
\* the fields submitted and the session reads back role doctor
C17_Witness ==
    /\ last = "create_doctor_profile"
    /\ \E request \in Authenticated(db, now), profile_data \in ClientProfiles :
          LET me == get_current_user_info(db, now, request)
          IN  /\ me.body.user.role = "doctor"
              /\ ListsProfile(db, me.body.user.id, profile_data)
              /\ db.doctor_profiles[Len(db.doctor_profiles)].user_id = me.body.user.id

----------------------------------------------------------------------------
(* C18 *)

\* the profiles of store d whose user_id is user_id
OwnProfiles(d, user_id) ==
    {d.doctor_profiles[i] :
        i \in {k \in 1..Len(d.doctor_profiles) :
                  d.doctor_profiles[k].user_id = user_id}}

\* on store d, GET /doctors/profile by a doctor answers a stored profile of
\* the caller if there is one and 404 if there is none
OwnProfileOr404(d, t, request) ==
    LET user == get_current_user(d, t, request)
        r == get_doctor_profile(d, t, request)
    IN  user.role = "doctor"
            => /\ r.db = d
               /\ IF OwnProfiles(d, user.id) # {}
                  THEN r.status = 200 /\ r.body.profile \in OwnProfiles(d, user.id)
                  ELSE r.status = 404

\* C18: GET /doctors/profile by a doctor answers a profile whose user_id is
\* the caller's id when one is stored and 404 when none is, both on the
\* stores between requests and on the store a first POST /doctors/profile
\* leaves while it runs, the role set and the profile not yet inserted
C18_OwnProfile ==
    \A request \in Authenticated(db, now) :
        /\ OwnProfileOr404(db, now, request)
        /\ OwnProfileOr404(
              SetDoctorRole(db, get_current_user(db, now, request).id),
              now, request)

\* a doctor with a profile and a user without one are logged in: the doctor
\* is answered the own profile, and the other, the role set while the first
\* profile is being created, is answered 404
C18_Witness ==
    \E c1, c2 \in Authenticated(db, now) :
        LET doctor == get_current_user(db, now, c1)
            other == get_current_user(db, now, c2)
            mid == SetDoctorRole(db, other.id)
        IN  /\ doctor.role = "doctor"
            /\ get_doctor_profile(db, now, c1).status = 200
            /\ get_doctor_profile(db, now, c1).body.profile.user_id = doctor.id
            /\ OwnProfiles(db, other.id) = {}
            /\ get_doctor_profile(mid, now, c2).status = 404

----------------------------------------------------------------------------
(* C19 *)

\* the places in the user collection of the users with this email
UsersAt(d, email) == {i \in 1..Len(d.users) : d.users[i].email = email}

\* store d holds a session with this token for the user with id user_id
HasSession(d, token, user_id) ==
    \E i \in 1..Len(d.user_sessions) :
        /\ d.user_sessions[i].session_token = token
        /\ d.user_sessions[i].user_id = user_id

\* C19: a login the verifier accepts succeeds; when no user has the verified
\* email it appends one user, with that email and role patient, and when one
\* has it the users are left as they were, id and role included (a doctor
\* stays a doctor); either way the session stored is that user's
C19_LoginUser ==
    \A session_id \in LoginIds :
        LET user_data == Verifier(session_id)
            r == process_session(db, now, session_id)
            at == UsersAt(db, user_data.email)
        IN  /\ r.status = 200
            /\ HasSession(r.db, user_data.session_token, r.body.user.id)
            /\ at = {}
                  => /\ r.db.users = Append(db.users, r.body.user)
                     /\ r.body.user.email = user_data.email
                     /\ r.body.user.role = "patient"
                     /\ \A i \in 1..Len(db.users) : db.users[i].id # r.body.user.id
            /\ at # {}
                  => /\ r.db.users = db.users
                     /\ \E i \in at : r.body.user = db.users[i]

\* a user who has become a doctor has just logged in again: no user was
\* added, the role is still doctor, and the session is that user's
C19_Witness ==
    /\ last = "process_session"
    /\ \E i \in 1..Len(db.users), p \in 1..Len(db.doctor_profiles) :
          /\ db.users[i].role = "doctor"
          /\ db.doctor_profiles[p].user_id = db.users[i].id
          /\ HasSession(db, "tok_a2", db.users[i].id)
          /\ UsersAt(db, db.users[i].email) = {i}

----------------------------------------------------------------------------
(* C20 *)

\* the request carries an Authorization header of the Bearer scheme
HasBearer(request) == Len(request.header) >= 2 /\ request.header[1] = "Bearer"

\* the user a request resolves to when it carries this token in the cookie
\* and no Authorization header
ByCookieAlone(d, t, token) ==
    get_current_user(d, t, [cookie |-> token, header |-> <<>>])

\* C20 as claimed: a request that carries the cookie resolves as the cookie
\* alone would, whatever its header, and a request that carries no cookie
\* but a Bearer header resolves as the header's token would
C20_AsClaimed ==
    \A request \in Credentials :
        /\ request.cookie # Absent
              => get_current_user(db, now, request)
                    = ByCookieAlone(db, now, request.cookie)
        /\ (request.cookie = Absent /\ HasBearer(request))
              => get_current_user(db, now, request)
                    = ByCookieAlone(db, now, request.header[2])

\* C20: a request whose cookie has a value that is not empty resolves as the
\* cookie alone would, whatever its header; a request without the cookie,
\* or with an empty one, that carries a Bearer header resolves as the
\* header's token would
C20_CookieFirst ==
    \A request \in Credentials :
        /\ ~Falsy(request.cookie)
              => get_current_user(db, now, request)
                    = ByCookieAlone(db, now, request.cookie)
        /\ (Falsy(request.cookie) /\ HasBearer(request))
              => get_current_user(db, now, request)
                    = ByCookieAlone(db, now, request.header[2])

\* two users are logged in: a request with the token of the one in the
\* cookie and the token of the other in the header is the first user's, and
\* with the cookie missing or empty it is the second user's
C20_Witness ==
    LET header == <<"Bearer", "tok_b1">>
        a == ByCookieAlone(db, now, "tok_a1")
        b == ByCookieAlone(db, now, "tok_b1")
    IN  /\ a # NoUser /\ b # NoUser /\ a # b
        /\ get_current_user(db, now, [cookie |-> "tok_a1", header |-> header]) = a
        /\ get_current_user(db, now, [cookie |-> Absent, header |-> header]) = b
        /\ get_current_user(db, now, [cookie |-> "", header |-> header]) = b

----------------------------------------------------------------------------
(* C21 *)

\* the session rows of store d
Sessions(d) == {d.user_sessions[i] : i \in 1..Len(d.user_sessions)}

\* the step is a login the verifier accepts
IsLogin == \E session_id \in LoginIds : db' = process_session(db, now, session_id).db

\* C21: every step leaves each session row as it was, removes it, or is a
\* login that issues it with expires_at 7 days after now, so no request
\* changes the expiry of a stored session; and after every step the token of
\* each stored session resolves to the session's user exactly while now is
\* strictly before its expires_at
C21_SevenDays ==
    [][ /\ \A s \in Sessions(db') :
              \/ s \in Sessions(db)
              \/ IsLogin /\ s.expires_at = now + SESSION_DAYS
        /\ \A s \in Sessions(db') :
              IF now' < s.expires_at
              THEN ByCookieAlone(db', now', s.session_token).id = s.user_id
              ELSE ByCookieAlone(db', now', s.session_token) = NoUser
      ]_vars

\* it is day 7: the token of the session issued on day 0 is refused, while
\* that of a session issued later, on the eve of its last day or before,
\* still resolves
C21_Witness ==
    /\ last = "tick"
    /\ now = SESSION_DAYS
    /\ \E s1, s2 \in Sessions(db) :
          /\ s1.expires_at = now
          /\ ByCookieAlone(db, now, s1.session_token) = NoUser
          /\ s2.expires_at > now
          /\ ByCookieAlone(db, now, s2.session_token).id = s2.user_id

----------------------------------------------------------------------------
(* Concurrent requests *)

\* at most this many requests that make more than one store call are started
MaxTasks == 2

\* a request in flight: its handler, the store call it is suspended before,
\* and its locals (those the handler does not have keep their empty value)
Task(op, pc, session_id, user, doctor_id, k) ==
    [op |-> op, pc |-> pc, session_id |-> session_id, user |-> user,
     doctor_id |-> doctor_id, k |-> k]

\* a request that has answered
Finished(op) == Task(op, "done", "", NoUser, None, 0)

\* the store the concurrent requests start from: alice has logged in and
\* created a doctor profile, one request after the other
Populated ==
    LET d0 == [users |-> <<>>, user_sessions |-> <<>>,
               doctor_profiles |-> <<>>, appointments |-> <<>>]
        r1 == process_session(d0, 0, "sid_a1")
        r2 == create_doctor_profile(r1.db, 0,
                                    [cookie |-> "tok_a1", header |-> <<>>],
                                    CHOOSE p \in ClientProfiles : ValidProfile(p))
    IN  r2.db

InitConcurrent ==
    /\ db = Populated
    /\ now = 0
    /\ steps = 0
    /\ last = "none"
    /\ tasks = <<>>

\* the requests suspended before store call pc of handler op
Suspended(op, pc) ==
    {i \in 1..Len(tasks) : tasks[i].op = op /\ tasks[i].pc = pc}

\* a request arrives and runs to the await after its first store call
Arrive(task) ==
    /\ Len(tasks) < MaxTasks
    /\ tasks' = Append(tasks, task)
    /\ UNCHANGED <<db, now, steps, last>>

\* request i makes a store call that leaves store d and goes on as task
Resume(i, d, task) ==
    /\ db' = d
    /\ tasks' = [tasks EXCEPT ![i] = task]
    /\ UNCHANGED <<now, steps, last>>

\* process_session, line 141: the verifier has accepted the session id and
\* the user is looked up by email
LoginFind ==
    \E session_id \in {sid \in SessionIds :
                          ~Falsy(sid) /\ Verifier(sid).status = 200} :
        LET ByEmail(u) == u.email = Verifier(session_id).email
            existing == FindOne(db.users, ByEmail)
        IN  Arrive(IF existing = 0
                   THEN Task("process_session", "insert_user", session_id,
                             NoUser, None, 0)
                   ELSE Task("process_session", "delete_sessions", session_id,
                             db.users[existing], None, 0))

\* process_session, lines 143-152: no user was found, one is inserted
LoginInsertUser ==
    \E i \in Suspended("process_session", "insert_user") :
        LET user_data == Verifier(tasks[i].session_id)
            user == [id |-> NewId("user", db.users), email |-> user_data.email,
                     name |-> user_data.name, picture |-> user_data.picture,
                     role |-> "patient"]
        IN  Resume(i, [db EXCEPT !.users = Append(db.users, user)],
                   [tasks[i] EXCEPT !.pc = "delete_sessions", !.user = user])

\* process_session, line 161: the user's sessions are deleted
LoginDeleteSessions ==
    \E i \in Suspended("process_session", "delete_sessions") :
        LET OfUser(s) == s.user_id = tasks[i].user.id
        IN  Resume(i, [db EXCEPT !.user_sessions =
                                    DeleteMany(db.user_sessions, OfUser)],
                   [tasks[i] EXCEPT !.pc = "insert_session"])

\* process_session, lines 164-169: the new session is inserted
LoginInsertSession ==
    \E i \in Suspended("process_session", "insert_session") :
        LET session == UserSession(tasks[i].user.id,
                                   Verifier(tasks[i].session_id).session_token,
                                   now)
        IN  Resume(i, [db EXCEPT !.user_sessions =
                                    Append(db.user_sessions, session)],
                   Finished("process_session"))

\* init_sample_doctors after the round of sample doctor k: the next round's
\* lookup, or the answer after the last round
SeedNextRound(k) ==
    IF k = Len(sample_doctors) THEN Finished("init_sample_doctors")
    ELSE Task("init_sample_doctors", "find_user", "", NoUser, None, k + 1)

\* init_sample_doctors, line 390: the lookup of sample doctor k on store d
SeedFound(d, k) ==
    LET ByEmail(u) == u.email = sample_doctors[k].email
    IN  IF FindOne(d.users, ByEmail) # 0 THEN SeedNextRound(k)
        ELSE Task("init_sample_doctors", "insert_user", "", NoUser, None, k)

\* a seeding request arrives and looks the first sample doctor up
SeedBegin == Arrive(SeedFound(db, 1))

\* the lookup of a later round
SeedFind ==
    \E i \in Suspended("init_sample_doctors", "find_user") :
        Resume(i, db, SeedFound(db, tasks[i].k))

\* init_sample_doctors, lines 394-400: the sample doctor's user is inserted
SeedInsertUser ==
    \E i \in Suspended("init_sample_doctors", "insert_user") :
        LET doctor_data == sample_doctors[tasks[i].k]
            user == [id |-> NewId("user", db.users), email |-> doctor_data.email,
                     name |-> doctor_data.name, picture |-> doctor_data.picture,
                     role |-> "doctor"]
        IN  Resume(i, [db EXCEPT !.users = Append(db.users, user)],
                   [tasks[i] EXCEPT !.pc = "insert_profile", !.user = user])

\* init_sample_doctors, lines 403-411: the sample doctor's profile is inserted
SeedInsertProfile ==
    \E i \in Suspended("init_sample_doctors", "insert_profile") :
        LET doctor_data == sample_doctors[tasks[i].k]
            profile == [id |-> NewId("profile", db.doctor_profiles),
                        user_id |-> tasks[i].user.id,
                        specialization |-> doctor_data.specialization,
                        experience_years |-> doctor_data.experience_years,
                        consultation_fee |-> doctor_data.consultation_fee,
                        available |-> TRUE]
        IN  Resume(i, [db EXCEPT !.doctor_profiles =
                                    Append(db.doctor_profiles, profile)],
                   SeedNextRound(tasks[i].k))

\* create_appointment, lines 269-275: the gate has passed the caller and the
\* doctor is looked up; the request answers 404 when none is found
BookFind ==
    \E request \in ClientCredentials, doctor_id \in KnownIds(db.doctor_profiles) :
        /\ require_auth(db, now, request) = 0
        /\ Arrive(IF FindAvailableDoctor(db, doctor_id) = 0
                  THEN Finished("create_appointment")
                  ELSE Task("create_appointment", "insert_appointment", "",
                            get_current_user(db, now, request), doctor_id, 0))

\* create_appointment, lines 277-285: the appointment is inserted
BookInsert ==
    \E i \in Suspended("create_appointment", "insert_appointment"),
       type \in AppointmentTypes :
        LET appointment == NewAppointment(db, tasks[i].user,
                                          tasks[i].doctor_id, type)
        IN  Resume(i, [db EXCEPT !.appointments =
                                    Append(db.appointments, appointment)],
                   Finished("create_appointment"))

\* update_availability makes one store call: it runs between any two store
\* calls of the requests in flight
Toggle ==
    \E request \in ClientCredentials, available \in BOOLEAN :
        /\ db' = update_availability(db, now, request, available).db
        /\ UNCHANGED <<now, steps, last, tasks>>

NextConcurrent ==
    \/ LoginFind
    \/ LoginInsertUser
    \/ LoginDeleteSessions
    \/ LoginInsertSession
    \/ SeedBegin
    \/ SeedFind
    \/ SeedInsertUser
    \/ SeedInsertProfile
    \/ BookFind
    \/ BookInsert
    \/ Toggle

SpecConcurrent == InitConcurrent /\ [][NextConcurrent]_vars

----------------------------------------------------------------------------
(* C22 *)

\* C22: no two session rows belong to the same user, between the store calls
\* of concurrent logins as between requests
C22_OneSessionPerUser ==
    \A i, j \in 1..Len(db.user_sessions) :
        db.user_sessions[i].user_id = db.user_sessions[j].user_id => i = j

----------------------------------------------------------------------------
(* C23 *)

\* C23: no two users have the same email, between the store calls of
\* concurrent logins and concurrent seeding calls as between requests
C23_UniqueEmail ==
    \A i, j \in 1..Len(db.users) :
        db.users[i].email = db.users[j].email => i = j

----------------------------------------------------------------------------
(* C30 *)

\* the appointments store d1 has and store d has not
Inserted(d, d1) ==
    {d1.appointments[i] : i \in 1..Len(d1.appointments)}
        \ {d.appointments[i] : i \in 1..Len(d.appointments)}

\* C30: whenever a step inserts an appointment, a profile with its doctor_id
\* is stored with available true in the store the insert is made on
C30_AvailableAtInsert ==
    [][ \A a \in Inserted(db, db') :
            \E i \in 1..Len(db.doctor_profiles) :
                /\ db.doctor_profiles[i].id = a.doctor_id
                /\ db.doctor_profiles[i].available = TRUE
      ]_vars

----------------------------------------------------------------------------
(* C24 *)

\* P holds of the answer of every endpoint to every request on store d at
\* time t: the gated endpoints asked with each credential that resolves to
\* a user (C1 is about the others), login with each session id, logout with
\* each credential, the list of doctors and the seeding
ForAllRequests(d, t, P(_)) ==
    /\ \A request \in Authenticated(d, t) : ForAllGated(d, t, request, P)
    /\ \A session_id \in SessionIds : P(process_session(d, t, session_id))
    /\ \A request \in Credentials : P(logout(d, t, request))
    /\ P(get_available_doctors(d))
    /\ P(init_sample_doctors(d))

\* every appointment of store d is still in store d1, at its place and with
\* its id, and is active there if it is active in d
StaysActive(d, d1) ==
    /\ Len(d1.appointments) >= Len(d.appointments)
    /\ \A i \in 1..Len(d.appointments) :
          /\ d1.appointments[i].id = d.appointments[i].id
          /\ d.appointments[i].status = "active"
                => d1.appointments[i].status = "active"

\* C24: every stored appointment is pending or active, always; and no step,
\* and no request that could be made in any reachable state, removes an
\* appointment or leaves one that was active with another status
C24_StatusMonotone ==
    /\ [](\A i \in 1..Len(db.appointments) :
              db.appointments[i].status \in {"pending", "active"})
    /\ [](LET Keeps(r) == StaysActive(db, r.db)
          IN  ForAllRequests(db, now, Keeps))
    /\ [][StaysActive(db, db')]_vars

\* an appointment has just been started: it is active, and starting it
\* again or booking another would leave it active
C24_Witness ==
    /\ last = "start_appointment"
    /\ \E i \in 1..Len(db.appointments), request \in Authenticated(db, now) :
          LET a == db.appointments[i]
              again == start_appointment(db, now, request, a.id)
              more == create_appointment(db, now, request, a.doctor_id, "scheduled")
          IN  /\ a.status = "active"
              /\ again.status = 200 /\ again.db.appointments[i].status = "active"
              /\ more.status = 200 /\ more.db.appointments[i].status = "active"
              /\ more.db.appointments[i + 1].status = "pending"

----------------------------------------------------------------------------
(* C25 *)

\* the appointments of store d have a room id each, no two the same
DistinctRooms(d) ==
    \A i, j \in 1..Len(d.appointments) :
        /\ d.appointments[i].video_room_id # None
        /\ d.appointments[i].video_room_id = d.appointments[j].video_room_id
              => i = j

\* every appointment of store d is still in store d1, at its place and with
\* its id, and has the room id there that it has in d
KeepsRooms(d, d1) ==
    /\ Len(d1.appointments) >= Len(d.appointments)
    /\ \A i \in 1..Len(d.appointments) :
          /\ d1.appointments[i].id = d.appointments[i].id
          /\ d1.appointments[i].video_room_id = d.appointments[i].video_room_id

\* C25: every stored appointment has a room id and no two have the same,
\* always; and no step, and no request that could be made in any reachable
\* state, changes the room id of a stored appointment or stores an
\* appointment without a room id or with the room id of another
C25_RoomIds ==
    /\ []DistinctRooms(db)
    /\ [](LET Keeps(r) == KeepsRooms(db, r.db) /\ DistinctRooms(r.db)
          IN  ForAllRequests(db, now, Keeps))
    /\ [][KeepsRooms(db, db')]_vars

\* an appointment has just been started with the room id it was booked
\* with, and another booking with the same doctor would get another room id
C25_Witness ==
    /\ last = "start_appointment"
    /\ \E i \in 1..Len(db.appointments), request \in Authenticated(db, now) :
          LET a == db.appointments[i]
              more == create_appointment(db, now, request, a.doctor_id, "scheduled")
          IN  /\ a.status = "active"
              /\ a.video_room_id = NewId("room", SubSeq(db.appointments, 1, i - 1))
              /\ more.status = 200
              /\ more.body.appointment.video_room_id # a.video_room_id
              /\ more.db.appointments[i].video_room_id = a.video_room_id

----------------------------------------------------------------------------
(* C26 *)

\* every user of store d is still in store d1, at its place and with its id,
\* and has the role there that it has in d, or the role doctor if it is one
\* of the users with an id in raised
RolesKept(d, d1, raised) ==
    /\ Len(d1.users) >= Len(d.users)
    /\ \A i \in 1..Len(d.users) :
          /\ d1.users[i].id = d.users[i].id
          /\ d1.users[i].role = IF d.users[i].id \in raised THEN "doctor"
                                ELSE d.users[i].role

\* C26: in every reachable state a successful POST /doctors/profile leaves
\* the caller with role doctor and every other user's role as it was, and
\* every other request (a refused profile creation, login, logout, booking,
\* listing, join, start, availability toggle, seeding) leaves the role of
\* every stored user as it was; and no step takes a doctor's role away
C26_RoleFrame ==
    /\ [](\A request \in Authenticated(db, now) :
             LET user == get_current_user(db, now, request)
                 Kept(r) == RolesKept(db, r.db, {})
             IN  /\ \A p \in ProfileInputs :
                       LET r == create_doctor_profile(db, now, request, p)
                       IN  RolesKept(db, r.db,
                                     IF r.status = 200 THEN {user.id} ELSE {})
                 /\ Kept(get_current_user_info(db, now, request))
                 /\ Kept(get_doctor_profile(db, now, request))
                 /\ Kept(get_user_appointments(db, now, request))
                 /\ \A a \in BOOLEAN :
                       Kept(update_availability(db, now, request, a))
                 /\ \A id \in DoctorIdInputs(db), ty \in AppointmentTypes :
                       Kept(create_appointment(db, now, request, id, ty))
                 /\ \A id \in KnownIds(db.appointments) :
                       /\ Kept(join_appointment(db, now, request, id))
                       /\ Kept(start_appointment(db, now, request, id)))
    /\ [](LET Kept(r) == RolesKept(db, r.db, {})
          IN  /\ \A session_id \in SessionIds :
                    Kept(process_session(db, now, session_id))
              /\ \A request \in Credentials : Kept(logout(db, now, request))
              /\ Kept(get_available_doctors(db))
              /\ Kept(init_sample_doctors(db)))
    /\ [][\A i \in 1..Len(db.users) :
             /\ db'.users[i].id = db.users[i].id
             /\ db.users[i].role = "doctor" => db'.users[i].role = "doctor"
             /\ db'.users[i].role # db.users[i].role
                   => /\ db'.users[i].role = "doctor"
                      /\ Len(db'.doctor_profiles) = Len(db.doctor_profiles) + 1
                      /\ db'.doctor_profiles[Len(db'.doctor_profiles)].user_id
                            = db.users[i].id
         ]_vars

\* a patient has just become a doctor by creating a profile while another
\* user is a patient still, and a new login of the doctor would leave the
\* role doctor
C26_Witness ==
    /\ last = "create_doctor_profile"
    /\ \E i, j \in 1..Len(db.users) :
          /\ db.users[i].role = "doctor"
          /\ db.users[j].role = "patient"
          /\ \E session_id \in LoginIds :
                LET r == process_session(db, now, session_id)
                IN  /\ r.status = 200
                    /\ r.body.user.id = db.users[i].id
                    /\ r.db.users[i].role = "doctor"

----------------------------------------------------------------------------
(* C27 *)

\* C27: in every reachable state the user_id of each doctor profile is the
\* id of a stored user, and that user's role is doctor
C27_ProfileOfDoctor ==
    \A i \in 1..Len(db.doctor_profiles) :
        \E j \in 1..Len(db.users) :
            /\ db.users[j].id = db.doctor_profiles[i].user_id
            /\ db.users[j].role = "doctor"

\* the sample doctors are stored and a user who logged in has just created
\* a profile beside theirs
C27_Witness ==
    /\ last = "create_doctor_profile"
    /\ Len(db.doctor_profiles) = Len(sample_doctors) + 1
    /\ \E j \in 1..Len(db.users) :
          /\ db.users[j].email \notin SampleEmails
          /\ db.users[j].role = "doctor"
          /\ OwnProfiles(db, db.users[j].id) # {}

----------------------------------------------------------------------------
(* C28 *)

\* the ids of the profiles a GET /doctors answer lists
ListedIds(r) == {r.body[k].profile.id : k \in 1..Len(r.body)}

\* C28: in every reachable state each read endpoint, asked with any
\* credentials and any appointment id, answers with the store as it was,
\* whether the gate resolves the credentials or refuses them; and a second
\* GET /doctors right after a first, or after any other read, lists the
\* same doctor ids
C28_ReadsChangeNothing ==
    LET first == get_available_doctors(db)
        Same(r) == r.db = db /\ ListedIds(get_available_doctors(r.db)) = ListedIds(first)
    IN  /\ Same(first)
        /\ \A request \in Credentials :
              /\ Same(get_current_user_info(db, now, request))
              /\ Same(get_doctor_profile(db, now, request))
              /\ Same(get_user_appointments(db, now, request))
              /\ \A id \in KnownIds(db.appointments) :
                    Same(join_appointment(db, now, request, id))

\* a doctor who has booked an appointment is logged in, a day has passed,
\* and each of the five reads answers 200 on a store that holds documents
\* of all four kinds
C28_Witness ==
    /\ last = "tick"
    /\ \E request \in Authenticated(db, now), i \in 1..Len(db.appointments) :
          /\ get_current_user_info(db, now, request).status = 200
          /\ get_doctor_profile(db, now, request).status = 200
          /\ get_user_appointments(db, now, request).status = 200
          /\ join_appointment(db, now, request, db.appointments[i].id).status = 200
          /\ Len(get_available_doctors(db).body) > 0

----------------------------------------------------------------------------
(* C29 *)

\* C29 as claimed: when a doctor's PUT /doctors/availability with available
\* false has been answered, GET /doctors lists no profile of that doctor and
\* a booking with any profile of that doctor is answered 404, however many
\* profiles the doctor has created
C29_UnavailableAfterToggle ==
    \A request \in Authenticated(db, now) :
        LET user == get_current_user(db, now, request)
            r == update_availability(db, now, request, FALSE)
            listed == get_available_doctors(r.db)
        IN  r.status = 200
                => /\ \A k \in 1..Len(listed.body) :
                         listed.body[k].profile.user_id # user.id
                   /\ \A p \in OwnProfiles(r.db, user.id),
                         patient \in Authenticated(r.db, now) :
                         create_appointment(r.db, now, patient, p.id,
                                            "scheduled").status = 404

----------------------------------------------------------------------------
(* C31 *)

\* the ids of the stored users and those of the stored profiles
UserIds(d) == {d.users[i].id : i \in 1..Len(d.users)}
ProfileIds(d) == {d.doctor_profiles[i].id : i \in 1..Len(d.doctor_profiles)}

\* C31: in every reachable state the user_id of every session and the
\* patient_id of every appointment are ids of stored users and the doctor_id
\* of every appointment is the id of a stored profile; so a token with a
\* live session resolves to a user, and every entry GET /appointments lists
\* has its patient field (for a doctor) or its doctor field (for a patient)
C31_ReferentialIntegrity ==
    /\ \A i \in 1..Len(db.user_sessions) :
          /\ db.user_sessions[i].user_id \in UserIds(db)
          /\ db.user_sessions[i].expires_at > now
                => ByCookieAlone(db, now, db.user_sessions[i].session_token)
                      # NoUser
    /\ \A i \in 1..Len(db.appointments) :
          /\ db.appointments[i].patient_id \in UserIds(db)
          /\ db.appointments[i].doctor_id \in ProfileIds(db)
          /\ Len(PatientInfo(db, db.appointments[i])) = 1
          /\ Len(DoctorInfo(db, db.appointments[i])) = 1
    /\ \A request \in Authenticated(db, now) :
          LET user == get_current_user(db, now, request)
              r == get_user_appointments(db, now, request)
          IN  \A k \in 1..Len(r.body) :
                 IF user.role = "doctor" THEN Len(r.body[k].patient) = 1
                 ELSE Len(r.body[k].doctor) = 1

\* a patient with a live session has just booked with a stored profile, and
\* the patient's list shows the booking with its doctor field
C31_Witness ==
    /\ last = "create_appointment"
    /\ \E request \in Authenticated(db, now) :
          LET user == get_current_user(db, now, request)
              r == get_user_appointments(db, now, request)
          IN  /\ user.role = "patient"
              /\ Len(r.body) > 0
              /\ r.body[1].appointment.patient_id = user.id
              /\ r.body[1].appointment.doctor_id \in ProfileIds(db)
              /\ Len(r.body[1].doctor) = 1

----------------------------------------------------------------------------
(* C32 *)

\* the session ids a login fails with: a missing or empty one, one the
\* verifier answers with another status than 200, one it cannot be asked for
FailingIds == SessionIds \ LoginIds

\* C32: in every reachable state a login with a missing session id, or with
\* one the verifier does not accept, is not answered 200 and leaves the
\* users and the sessions as they were (the whole store, even), and every
\* credential that resolved to a user before resolves to the same user after
C32_FailedLoginFrame ==
    \A session_id \in FailingIds :
        LET r == process_session(db, now, session_id)
        IN  /\ r.status # 200
            /\ r.db.users = db.users
            /\ r.db.user_sessions = db.user_sessions
            /\ r.db = db
            /\ \A request \in Authenticated(db, now) :
                  get_current_user(r.db, now, request)
                      = get_current_user(db, now, request)

\* two users are logged in when logins without a session id and with a
\* rejected one fail: both users' tokens resolve after them as before
C32_Witness ==
    /\ last = "process_session"
    /\ Len(db.user_sessions) = 2
    /\ \E s1, s2 \in FailingIds :
          /\ Falsy(s1)
          /\ ~Falsy(s2) /\ Verifier(s2).status \notin {0, 200}
          /\ \A i \in 1..Len(db.user_sessions) :
                LET tok == db.user_sessions[i].session_token
                IN  /\ ByCookieAlone(db, now, tok) # NoUser
                    /\ ByCookieAlone(process_session(db, now, s1).db, now, tok)
                          = ByCookieAlone(db, now, tok)
                    /\ ByCookieAlone(process_session(db, now, s2).db, now, tok)
                          = ByCookieAlone(db, now, tok)

----------------------------------------------------------------------------
(* C33 *)

\* the credentials with a Bearer header and no cookie, or an empty one
HeaderOnly == {c \in Credentials : Falsy(c.cookie) /\ HasBearer(c)}

\* C33: in every reachable state a logout that presents its token in the
\* Bearer header alone is answered 200 with success, leaves the store as it
\* was, and the same credentials resolve afterwards, now and on later days,
\* to the user they would have resolved to without the logout
C33_HeaderLogoutKeepsSession ==
    \A request \in HeaderOnly :
        LET r == logout(db, now, request)
        IN  /\ r.status = 200
            /\ r.body.success = TRUE
            /\ r.db = db
            /\ \A dt \in Elapsed :
                  get_current_user(r.db, now + dt, request)
                      = get_current_user(db, now + dt, request)

\* a user whose client sends the token in the header is logged in: the
\* header-only logout reports success and GET /auth/me with the same header
\* is answered 200 after it, today and tomorrow
C33_Witness ==
    \E request \in HeaderOnly :
        LET r == logout(db, now, request)
        IN  /\ get_current_user(db, now, request) # NoUser
            /\ r.status = 200
            /\ SessionTokens(r.db) = SessionTokens(db)
            /\ get_current_user_info(r.db, now, request).status = 200
            /\ get_current_user_info(r.db, now + 1, request).status = 200

=============================================================================
